---- MODULE Spec2Model ----
(***************************************************************************)
(* Model of BuildCommand::output (src/leo/commands/build.rs): one package  *)
(* build, stage by stage, over a small file system.  The package's files   *)
(* persist between builds; the build's locals live for one invocation.     *)
(***************************************************************************)
EXTENDS Integers, Sequences, FiniteSets, TLC

\* ------------------------------------------------------------------ bounds
\* Main source texts are 0..NumSources: 0 is a text the frontend rejects.
NumSources == 2
\* Input and state texts are 0..MaxText: 0 is the empty text.
MaxText == 1

\* ------------------------------------------------------- values and files
\* A file is <<>> when it does not exist and <<content>> when it does.
Absent == <<>>
File(content) == <<content>>
Exists(f) == f # Absent
Content(f) == f[1]

SourceTexts == 0..NumSources
LibTexts == 0..1
Texts == 0..MaxText
EmptyText == 0

\* The two directories a path of the build can be resolved against: the
\* package root directory ("dir"), and the root path itself when it names a
\* file ("file").
Bases == {"dir", "file"}

VARIABLES
    rootIsFile,      \* current_dir() names a file, not a directory
    manifestOk,      \* the manifest is present and well formed
    libSrc,          \* src/lib.leo
    mainSrc,         \* src/main.leo
    inputFile,       \* <package>.in, by base
    stateFile,       \* <package>.state, by base
    outputsDir,      \* outputs/ exists under the package directory
    circuitFile,     \* the circuit file, by base
    checksumFile,    \* the checksum file, by base
    pc,              \* position of the build in `output`
    input_string, state_string, program, program_checksum,
    cs, json, serialized, checksum_differs,
    result,          \* <<>> is None, <<[program, changed]>> is Some
    error,           \* kind of the error returned, "none" when none
    trace,           \* stages executed by this build, each with its outcome
    writes,          \* file-system writes of this build, in order
    reads,           \* file-system reads and existence checks of this build
    pre,             \* the outputs as they were when this build started
    prevSome,        \* the previous build returned Some(..)
    dirty,           \* main, input or state edited since the previous build
    lastSum          \* checksum of the latest build that returned Some(..)

fsVars == <<rootIsFile, manifestOk, libSrc, mainSrc, inputFile, stateFile,
            outputsDir, circuitFile, checksumFile>>
localVars == <<input_string, state_string, program, program_checksum,
               cs, json, serialized, checksum_differs, result, error>>
ghostVars == <<trace, writes, reads, pre, prevSome, dirty, lastSum>>
vars == <<fsVars, pc, localVars, ghostVars>>

\* --------------------------------------------------------- path handling
\* let path = current_dir()?
PathBase == IF rootIsFile THEN "file" ELSE "dir"

\* package_path: path, popped to its parent when it names a file.
PackagePathBase == "dir"

\* Mutants of InputReadBase and of ChecksumWriteBase: the other base.
InputElsewhere == "file"
ChecksumElsewhere == "file"

\* The base each file operation of the build is handed.
InputReadBase == PathBase
StateReadBase == PathBase
CircuitWriteBase == PathBase
CircuitReadBase == PackagePathBase
ChecksumExistsBase == PackagePathBase
ChecksumReadBase == PackagePathBase
ChecksumWriteBase == PathBase

\* ------------------------------------------------------ external services
\* Frontend: deterministic in its arguments; text 0 does not compile, and a
\* missing file does not either.
NoProgram == <<>>
CompileWithInput(src, input, state) ==
    IF Exists(src) /\ Content(src) # 0
    THEN <<[main |-> Content(src), input |-> input, state |-> state]>>
    ELSE NoProgram

CompileWithoutInput(src) == Exists(src) /\ Content(src) # 0

\* Program::checksum: a digest of the program.
Checksum(p) == IF p = NoProgram THEN 0 ELSE p[1].main

\* Reading an optional text file: absence yields the empty text.
ReadOptional(f) == IF Exists(f) THEN Content(f) ELSE EmptyText

\* The synthesizer as constructed, before synthesis.
FreshSynthesizer ==
    [at |-> <<>>, bt |-> <<>>, ct |-> <<>>,
     input_assignment |-> <<>>, aux_assignment |-> <<>>]

\* compile_constraints: one constraint per unit of the main text; each
\* linear combination is a sequence of <<coefficient, variable index>>.
Synthesize(p) ==
    LET n == Checksum(p)
        m == p[1]
    IN  [at |-> [i \in 1..n |-> << <<i, 0>> >>],
         bt |-> [i \in 1..n |-> << <<m.input + 1, i>> >>],
         ct |-> [i \in 1..n |-> << <<m.state + 10, i>>, <<1, 0>> >>],
         input_assignment |-> <<1, m.input>>,
         aux_assignment |-> <<m.state>>]

\* ------------------------------------------------------------------ codec
\* A field element is written as its decimal digits.
RECURSIVE Digits(_)
Digits(v) == IF v < 10 THEN <<v>> ELSE Digits(v \div 10) \o <<v % 10>>

RECURSIVE FromDigits(_)
FromDigits(d) ==
    IF Len(d) = 0 THEN 0
    ELSE 10 * FromDigits(SubSeq(d, 1, Len(d) - 1)) + d[Len(d)]

EncodeLC(lc) == [k \in 1..Len(lc) |-> <<Digits(lc[k][1]), lc[k][2]>>]
DecodeLC(lc) == [k \in 1..Len(lc) |-> <<FromDigits(lc[k][1]), lc[k][2]>>]

\* SerializedCircuit::from(cs) and to_json_string.
Encode(c) ==
    [num_inputs |-> Len(c.input_assignment),
     num_aux |-> Len(c.aux_assignment),
     num_constraints |-> Len(c.at),
     input_assignment |-> [k \in 1..Len(c.input_assignment) |-> Digits(c.input_assignment[k])],
     aux_assignment |-> [k \in 1..Len(c.aux_assignment) |-> Digits(c.aux_assignment[k])],
     at |-> [i \in 1..Len(c.at) |-> EncodeLC(c.at[i])],
     bt |-> [i \in 1..Len(c.bt) |-> EncodeLC(c.bt[i])],
     ct |-> [i \in 1..Len(c.ct) |-> EncodeLC(c.ct[i])]]

\* from_json_string and CircuitSynthesizer::try_from: the text is accepted
\* when its counts agree with its sequences.
Decodable(t) ==
    /\ t.num_constraints = Len(t.at)
    /\ t.num_constraints = Len(t.bt)
    /\ t.num_constraints = Len(t.ct)
    /\ t.num_inputs = Len(t.input_assignment)
    /\ t.num_aux = Len(t.aux_assignment)

Decode(t) ==
    [at |-> [i \in 1..Len(t.at) |-> DecodeLC(t.at[i])],
     bt |-> [i \in 1..Len(t.bt) |-> DecodeLC(t.bt[i])],
     ct |-> [i \in 1..Len(t.ct) |-> DecodeLC(t.ct[i])],
     input_assignment |-> [k \in 1..Len(t.input_assignment) |-> FromDigits(t.input_assignment[k])],
     aux_assignment |-> [k \in 1..Len(t.aux_assignment) |-> FromDigits(t.aux_assignment[k])]]

\* ------------------------------------------------------------ the build
None == <<>>
Some(p, changed) == <<[program |-> p, changed |-> changed]>>
NoText == <<>>
NoSum == <<>>

Outputs == [outputsDir |-> outputsDir, circuitFile |-> circuitFile,
            checksumFile |-> checksumFile, mainSrc |-> mainSrc, libSrc |-> libSrc]
NoOutputs == <<>>

Final == {"done", "failed", "panicked"}

\* Mutant of Propagate: the error is dropped and the build goes on.
Swallow(ok, next) == next

\* `expr?`: an error returns from `output` at once.
Propagate(ok, next) == IF ok THEN next ELSE "failed"

\* Mutant of Unwrap: the error is replaced by a default and the build goes on.
UnwrapOrDefault(ok, next) == next

\* `expr.unwrap()`: an error panics.
Unwrap(ok, next) == IF ok THEN next ELSE "panicked"

Raise(ok, kind) == IF ok THEN error ELSE kind

Did(stage, ok) == Append(trace, [stage |-> stage, ok |-> ok])
Wrote(ok, kind, base) ==
    IF ok THEN Append(writes, [kind |-> kind, base |-> base]) ELSE writes
Read(op, kind, base) == Append(reads, [op |-> op, kind |-> kind, base |-> base])

\* Mutant of MainFileExists: the main phase is entered unconditionally.
MainFileAssumed == TRUE

\* LibFile::exists_at(&package_path), MainFile::exists_at(&package_path)
LibFileExists == Exists(libSrc)
MainFileExists == Exists(mainSrc)

\* Mutant of AfterCompileMain: synthesis starts before the checksum is taken.
SynthesizeFirst == "synthesize"

\* Mutant of AfterMainExists: the outputs directory is not created.
SkipCreateOutputs == "read_input"

\* Mutant of AfterChecksum: the checksum file is handled before the circuit.
ChecksumFileFirst == "checksum_file"

\* Mutant of AfterReadCircuit: the circuit is written again after the read.
RetryWriteCircuit == "write_circuit"

\* The stage that follows each stage that succeeded.
AfterManifest == "lib"
AfterLib == "main"
AfterMainExists == "create_outputs"
AfterCreateOutputs == "read_input"
AfterReadInput == "read_state"
AfterReadState == "compile_main"
AfterCompileMain == "checksum"
AfterChecksum == "synthesize"
AfterSynthesize == "encode"
AfterEncode == "write_circuit"
AfterWriteCircuit == "read_circuit"
AfterReadCircuit == "decode"
AfterDecode == "checksum_file"

\* Mutant of SynthesizerToSerialize: a synthesizer that never saw the program.
Unsynthesized == FreshSynthesizer

\* let cs = CircuitSynthesizer { .. }; SerializedCircuit::from(cs)
SynthesizerToSerialize == cs

\* Mutants of the checksum comparison and of the write that depends on it.
DiffersInverted(current, previous) == current = previous
DiffersAlways(current, previous) == TRUE
NoDifferenceWhenAbsent == FALSE
AlwaysWriteChecksum == TRUE

\* checksum_differs when a checksum file exists / when none does.
Differs(current, previous) == current # previous
DiffersWhenAbsent == TRUE

\* Mutant of MustWriteChecksum: the checksum is never saved.
NeverWriteChecksum == FALSE

\* if checksum_differs { checksum_file.write_to(..) }
MustWriteChecksum == checksum_differs

\* let temporary_program = program.clone(): synthesis consumes the copy.
ProgramCopy(p) == p

\* Mutant of ReturnedProgram: a program compiled without input and state.
CompiledWithoutInput == CompileWithInput(mainSrc, EmptyText, EmptyText)

\* return Ok(Some((program, ..))): the program main compilation produced.
ReturnedProgram == program

ClearedLocals ==
    /\ input_string' = EmptyText
    /\ state_string' = EmptyText
    /\ program' = NoProgram
    /\ program_checksum' = 0
    /\ cs' = FreshSynthesizer
    /\ json' = NoText
    /\ serialized' = NoText
    /\ checksum_differs' = FALSE
    /\ result' = None

\* let path = current_dir()?
StartBuild ==
    /\ pc = "idle"
    /\ \E ok \in BOOLEAN :
        /\ pc' = Propagate(ok, "manifest")
        /\ ClearedLocals
        /\ error' = IF ok THEN "none" ELSE "IOError"
        /\ trace' = <<[stage |-> "current_dir", ok |-> ok]>>
    /\ writes' = <<>>
    /\ reads' = <<>>
    /\ pre' = <<Outputs>>
    /\ UNCHANGED <<fsVars, prevSome, dirty, lastSum>>

\* let manifest = Manifest::try_from(&path)?
LoadManifest ==
    /\ pc = "manifest"
    /\ pc' = Propagate(manifestOk, AfterManifest)
    /\ error' = Raise(manifestOk, "ManifestError")
    /\ trace' = Did("manifest", manifestOk)
    /\ UNCHANGED <<fsVars, input_string, state_string, program, program_checksum,
                   cs, json, serialized, checksum_differs, result,
                   writes, reads, pre, prevSome, dirty, lastSum>>

\* if LibFile::exists_at(..) { parse_program_without_input(..)? }
CompileLibrary ==
    /\ pc = "lib"
    /\ IF LibFileExists
       THEN LET ok == CompileWithoutInput(libSrc)
            IN  /\ pc' = Propagate(ok, AfterLib)
                /\ error' = Raise(ok, "FrontendCompileError")
                /\ trace' = Did("compile_lib", ok)
                /\ reads' = Read("read", "lib", PackagePathBase)
       ELSE /\ pc' = AfterLib
            /\ reads' = Read("exists", "lib", PackagePathBase)
            /\ UNCHANGED <<error, trace>>
    /\ UNCHANGED <<fsVars, input_string, state_string, program, program_checksum,
                   cs, json, serialized, checksum_differs, result,
                   writes, pre, prevSome, dirty, lastSum>>

\* if MainFile::exists_at(..) { .. } ... Ok(None)
CheckMain ==
    /\ pc = "main"
    /\ pc' = IF MainFileExists THEN AfterMainExists ELSE "done"
    /\ result' = None
    /\ reads' = Read("exists", "main", PackagePathBase)
    /\ UNCHANGED <<fsVars, input_string, state_string, program, program_checksum,
                   cs, json, serialized, checksum_differs, error,
                   trace, writes, pre, prevSome, dirty, lastSum>>

\* OutputsDirectory::create(&package_path)?
CreateOutputs ==
    /\ pc = "create_outputs"
    /\ \E ok \in BOOLEAN :
        /\ pc' = Propagate(ok, AfterCreateOutputs)
        /\ error' = Raise(ok, "IOError")
        /\ trace' = Did("create_outputs", ok)
        /\ outputsDir' = (outputsDir \/ ok)
        /\ writes' = Wrote(ok /\ ~outputsDir, "outputs", PackagePathBase)
    /\ UNCHANGED <<rootIsFile, manifestOk, libSrc, mainSrc, inputFile, stateFile,
                   circuitFile, checksumFile,
                   input_string, state_string, program, program_checksum,
                   cs, json, serialized, checksum_differs, result,
                   reads, pre, prevSome, dirty, lastSum>>

\* let input_string = InputFile::new(..).read_from(&path)?
ReadInput ==
    /\ pc = "read_input"
    /\ \E ok \in BOOLEAN :
        /\ pc' = Propagate(ok, AfterReadInput)
        /\ error' = Raise(ok, "IOError")
        /\ trace' = Did("read_input", ok)
        /\ input_string' = IF ok THEN ReadOptional(inputFile[InputReadBase])
                           ELSE input_string
    /\ reads' = Read("read", "input", InputReadBase)
    /\ UNCHANGED <<fsVars, state_string, program, program_checksum,
                   cs, json, serialized, checksum_differs, result,
                   writes, pre, prevSome, dirty, lastSum>>

\* let state_string = StateFile::new(..).read_from(&path)?
ReadState ==
    /\ pc = "read_state"
    /\ \E ok \in BOOLEAN :
        /\ pc' = Propagate(ok, AfterReadState)
        /\ error' = Raise(ok, "IOError")
        /\ trace' = Did("read_state", ok)
        /\ state_string' = IF ok THEN ReadOptional(stateFile[StateReadBase])
                           ELSE state_string
    /\ reads' = Read("read", "state", StateReadBase)
    /\ UNCHANGED <<fsVars, input_string, program, program_checksum,
                   cs, json, serialized, checksum_differs, result,
                   writes, pre, prevSome, dirty, lastSum>>

\* let program = parse_program_with_input(..)?
CompileMain ==
    /\ pc = "compile_main"
    /\ LET p == CompileWithInput(mainSrc, input_string, state_string)
           ok == p # NoProgram
       IN  /\ pc' = Propagate(ok, AfterCompileMain)
           /\ error' = Raise(ok, "FrontendCompileError")
           /\ trace' = Did("compile_main", ok)
           /\ program' = p
    /\ reads' = Read("read", "main", PackagePathBase)
    /\ UNCHANGED <<fsVars, input_string, state_string, program_checksum,
                   cs, json, serialized, checksum_differs, result,
                   writes, pre, prevSome, dirty, lastSum>>

\* let program_checksum = program.checksum()?
ComputeChecksum ==
    /\ pc = "checksum"
    /\ \E ok \in BOOLEAN :
        /\ pc' = Propagate(ok, AfterChecksum)
        /\ error' = Raise(ok, "CompilerError")
        /\ trace' = Did("checksum", ok)
        /\ program_checksum' = IF ok THEN Checksum(program) ELSE program_checksum
    /\ UNCHANGED <<fsVars, input_string, state_string, program,
                   cs, json, serialized, checksum_differs, result,
                   writes, reads, pre, prevSome, dirty, lastSum>>

\* let output = temporary_program.compile_constraints(&mut cs)?
SynthesizeConstraints ==
    /\ pc = "synthesize"
    /\ \E ok \in BOOLEAN :
        /\ pc' = Propagate(ok, AfterSynthesize)
        /\ error' = Raise(ok, "ConstraintSynthesisError")
        /\ trace' = Did("synthesize", ok)
        /\ cs' = IF ok THEN Synthesize(ProgramCopy(program)) ELSE cs
    /\ UNCHANGED <<fsVars, input_string, state_string, program, program_checksum,
                   json, serialized, checksum_differs, result,
                   writes, reads, pre, prevSome, dirty, lastSum>>

\* let json = SerializedCircuit::from(cs).to_json_string().unwrap()
EncodeCircuit ==
    /\ pc = "encode"
    /\ \E ok \in BOOLEAN :
        /\ pc' = Unwrap(ok, AfterEncode)
        /\ trace' = Did("encode", ok)
        /\ json' = IF ok THEN <<Encode(SynthesizerToSerialize)>> ELSE json
    /\ UNCHANGED <<fsVars, input_string, state_string, program, program_checksum,
                   cs, serialized, checksum_differs, result, error,
                   writes, reads, pre, prevSome, dirty, lastSum>>

\* circuit_file.write_to(&path, json)?
WriteCircuit ==
    /\ pc = "write_circuit"
    /\ \E ok \in BOOLEAN :
        /\ pc' = Propagate(ok, AfterWriteCircuit)
        /\ error' = Raise(ok, "IOError")
        /\ trace' = Did("write_circuit", ok)
        /\ circuitFile' = IF ok THEN [circuitFile EXCEPT ![CircuitWriteBase] = json]
                          ELSE circuitFile
        /\ writes' = Wrote(ok, "circuit", CircuitWriteBase)
    /\ UNCHANGED <<rootIsFile, manifestOk, libSrc, mainSrc, inputFile, stateFile,
                   outputsDir, checksumFile,
                   input_string, state_string, program, program_checksum,
                   cs, json, serialized, checksum_differs, result,
                   reads, pre, prevSome, dirty, lastSum>>

\* let serialized = circuit_file.read_from(&package_path)?
ReadCircuit ==
    /\ pc = "read_circuit"
    /\ \E io \in BOOLEAN :
        LET f == circuitFile[CircuitReadBase]
            ok == io /\ Exists(f)
        IN  /\ pc' = Propagate(ok, AfterReadCircuit)
            /\ error' = Raise(ok, "IOError")
            /\ trace' = Did("read_circuit", ok)
            /\ serialized' = IF ok THEN f ELSE serialized
    /\ reads' = Read("read", "circuit", CircuitReadBase)
    /\ UNCHANGED <<fsVars, input_string, state_string, program, program_checksum,
                   cs, json, checksum_differs, result,
                   writes, pre, prevSome, dirty, lastSum>>

\* SerializedCircuit::from_json_string(&serialized).unwrap();
\* CircuitSynthesizer::try_from(deserialized).unwrap()
DecodeCircuit ==
    /\ pc = "decode"
    /\ LET ok == Decodable(Content(serialized))
       IN  /\ pc' = Unwrap(ok, AfterDecode)
           /\ trace' = Did("decode", ok)
    /\ UNCHANGED <<fsVars, localVars, writes, reads, pre, prevSome, dirty, lastSum>>

\* let checksum_differs = if checksum_file.exists_at(..) { read_from(..)? != .. } else { true }
CompareChecksum ==
    /\ pc = "checksum_file"
    /\ LET f == checksumFile[ChecksumExistsBase]
           g == checksumFile[ChecksumReadBase]
       IN  IF Exists(f)
           THEN \E io \in BOOLEAN :
                   LET ok == io /\ Exists(g)
                   IN  /\ pc' = Propagate(ok, "write_checksum")
                       /\ error' = Raise(ok, "IOError")
                       /\ trace' = Did("read_checksum", ok)
                       /\ checksum_differs' =
                              IF ok THEN Differs(program_checksum, Content(g))
                              ELSE checksum_differs
                       /\ reads' = Read("read", "checksum", ChecksumReadBase)
           ELSE /\ pc' = "write_checksum"
                /\ checksum_differs' = DiffersWhenAbsent
                /\ reads' = Read("exists", "checksum", ChecksumExistsBase)
                /\ UNCHANGED <<error, trace>>
    /\ UNCHANGED <<fsVars, input_string, state_string, program, program_checksum,
                   cs, json, serialized, result,
                   writes, pre, prevSome, dirty, lastSum>>

\* if checksum_differs { checksum_file.write_to(&path, program_checksum)? }
WriteChecksum ==
    /\ pc = "write_checksum"
    /\ IF MustWriteChecksum
       THEN \E ok \in BOOLEAN :
               /\ pc' = Propagate(ok, "return")
               /\ error' = Raise(ok, "IOError")
               /\ trace' = Did("write_checksum", ok)
               /\ checksumFile' =
                      IF ok THEN [checksumFile EXCEPT ![ChecksumWriteBase] = File(program_checksum)]
                      ELSE checksumFile
               /\ writes' = Wrote(ok, "checksum", ChecksumWriteBase)
       ELSE /\ pc' = "return"
            /\ UNCHANGED <<error, trace, checksumFile, writes>>
    /\ UNCHANGED <<rootIsFile, manifestOk, libSrc, mainSrc, inputFile, stateFile,
                   outputsDir, circuitFile,
                   input_string, state_string, program, program_checksum,
                   cs, json, serialized, checksum_differs, result,
                   reads, pre, prevSome, dirty, lastSum>>

\* return Ok(Some((program, checksum_differs)))
ReturnSome ==
    /\ pc = "return"
    /\ pc' = "done"
    /\ result' = Some(ReturnedProgram, checksum_differs)
    /\ UNCHANGED <<fsVars, input_string, state_string, program, program_checksum,
                   cs, json, serialized, checksum_differs, error, ghostVars>>

\* The invocation is over: nothing of it survives but the files.
Exit ==
    /\ pc \in Final
    /\ pc' = "idle"
    /\ ClearedLocals
    /\ error' = "none"
    /\ trace' = <<>>
    /\ writes' = <<>>
    /\ reads' = <<>>
    /\ pre' = NoOutputs
    /\ prevSome' = (pc = "done" /\ result # None)
    /\ dirty' = FALSE
    /\ lastSum' = IF pc = "done" /\ result # None THEN <<program_checksum>> ELSE lastSum
    /\ UNCHANGED fsVars

\* ------------------------------------------------------------ the author
\* Between builds the package's author edits the sources.
EditMain ==
    /\ pc = "idle"
    /\ \E f \in {Absent} \cup {File(t) : t \in SourceTexts} :
        /\ f # mainSrc
        /\ mainSrc' = f
    /\ dirty' = TRUE
    /\ UNCHANGED <<rootIsFile, manifestOk, libSrc, inputFile, stateFile,
                   outputsDir, circuitFile, checksumFile,
                   pc, localVars, trace, writes, reads, pre, prevSome, lastSum>>

EditLib ==
    /\ pc = "idle"
    /\ \E f \in {Absent} \cup {File(t) : t \in LibTexts} :
        /\ f # libSrc
        /\ libSrc' = f
    /\ UNCHANGED <<rootIsFile, manifestOk, mainSrc, inputFile, stateFile,
                   outputsDir, circuitFile, checksumFile,
                   pc, localVars, ghostVars>>

EditInput ==
    /\ pc = "idle"
    /\ \E f \in {Absent} \cup {File(t) : t \in Texts} :
        /\ f # inputFile["dir"]
        /\ inputFile' = [inputFile EXCEPT !["dir"] = f]
    /\ dirty' = TRUE
    /\ UNCHANGED <<rootIsFile, manifestOk, libSrc, mainSrc, stateFile,
                   outputsDir, circuitFile, checksumFile,
                   pc, localVars, trace, writes, reads, pre, prevSome, lastSum>>

EditState ==
    /\ pc = "idle"
    /\ \E f \in {Absent} \cup {File(t) : t \in Texts} :
        /\ f # stateFile["dir"]
        /\ stateFile' = [stateFile EXCEPT !["dir"] = f]
    /\ dirty' = TRUE
    /\ UNCHANGED <<rootIsFile, manifestOk, libSrc, mainSrc, inputFile,
                   outputsDir, circuitFile, checksumFile,
                   pc, localVars, trace, writes, reads, pre, prevSome, lastSum>>

EditManifest ==
    /\ pc = "idle"
    /\ manifestOk' = ~manifestOk
    /\ UNCHANGED <<rootIsFile, libSrc, mainSrc, inputFile, stateFile,
                   outputsDir, circuitFile, checksumFile,
                   pc, localVars, ghostVars>>

\* ------------------------------------------------------- specifications
InitPackage ==
    /\ manifestOk = TRUE
    /\ libSrc = Absent
    /\ mainSrc = File(1)
    /\ inputFile = [b \in Bases |-> Absent]
    /\ stateFile = [b \in Bases |-> Absent]
    /\ outputsDir = FALSE
    /\ circuitFile = [b \in Bases |-> Absent]
    /\ checksumFile = [b \in Bases |-> Absent]
    /\ pc = "idle"
    /\ input_string = EmptyText
    /\ state_string = EmptyText
    /\ program = NoProgram
    /\ program_checksum = 0
    /\ cs = FreshSynthesizer
    /\ json = NoText
    /\ serialized = NoText
    /\ checksum_differs = FALSE
    /\ result = None
    /\ error = "none"
    /\ trace = <<>>
    /\ writes = <<>>
    /\ reads = <<>>
    /\ pre = NoOutputs
    /\ prevSome = FALSE
    /\ dirty = FALSE
    /\ lastSum = NoSum

\* current_dir() names a directory.
Init == InitPackage /\ rootIsFile = FALSE

\* The root path may name a file as well (the case `output` pops).
InitAnyRoot == InitPackage /\ rootIsFile \in BOOLEAN

Next ==
    \/ StartBuild
    \/ LoadManifest
    \/ CompileLibrary
    \/ CheckMain
    \/ CreateOutputs
    \/ ReadInput
    \/ ReadState
    \/ CompileMain
    \/ ComputeChecksum
    \/ SynthesizeConstraints
    \/ EncodeCircuit
    \/ WriteCircuit
    \/ ReadCircuit
    \/ DecodeCircuit
    \/ CompareChecksum
    \/ WriteChecksum
    \/ ReturnSome
    \/ Exit
    \/ EditMain
    \/ EditLib
    \/ EditInput
    \/ EditState
    \/ EditManifest

Spec == Init /\ [][Next]_vars

SpecAnyRoot == InitAnyRoot /\ [][Next]_vars

\* The statements of `output`: the function runs on one thread and every
\* call it makes returns, so a build that has started keeps taking steps.
BuildStep ==
    \/ LoadManifest
    \/ CompileLibrary
    \/ CheckMain
    \/ CreateOutputs
    \/ ReadInput
    \/ ReadState
    \/ CompileMain
    \/ ComputeChecksum
    \/ SynthesizeConstraints
    \/ EncodeCircuit
    \/ WriteCircuit
    \/ ReadCircuit
    \/ DecodeCircuit
    \/ CompareChecksum
    \/ WriteChecksum
    \/ ReturnSome

\* A package in any state of its sources, with the checksum file an earlier
\* build may have left, built again and again without edits in between.
InitAnyPackage ==
    /\ rootIsFile = FALSE
    /\ manifestOk \in BOOLEAN
    /\ libSrc \in {Absent} \cup {File(t) : t \in LibTexts}
    /\ mainSrc \in {Absent} \cup {File(t) : t \in SourceTexts}
    /\ \E f \in {Absent} \cup {File(t) : t \in Texts} :
           inputFile = [b \in Bases |-> IF b = "dir" THEN f ELSE Absent]
    /\ \E f \in {Absent} \cup {File(t) : t \in Texts} :
           stateFile = [b \in Bases |-> IF b = "dir" THEN f ELSE Absent]
    /\ \E f \in {Absent} \cup {File(t) : t \in SourceTexts \ {0}} :
           /\ checksumFile = [b \in Bases |-> IF b = "dir" THEN f ELSE Absent]
           /\ outputsDir = Exists(f)
           /\ lastSum = f
    /\ circuitFile = [b \in Bases |-> Absent]
    /\ pc = "idle"
    /\ input_string = EmptyText
    /\ state_string = EmptyText
    /\ program = NoProgram
    /\ program_checksum = 0
    /\ cs = FreshSynthesizer
    /\ json = NoText
    /\ serialized = NoText
    /\ checksum_differs = FALSE
    /\ result = None
    /\ error = "none"
    /\ trace = <<>>
    /\ writes = <<>>
    /\ reads = <<>>
    /\ pre = NoOutputs
    /\ prevSome = FALSE
    /\ dirty = FALSE

NextBuilds == StartBuild \/ BuildStep \/ Exit

SpecFair == InitAnyPackage /\ [][NextBuilds]_vars /\ WF_vars(BuildStep)

\* ----------------------------------------------------------------- claims
Building == pc # "idle"
AtStart == pre[1]
Returned == pc = "done"
ReturnedSome == pc = "done" /\ result # None
Executed(stage) == \E i \in 1..Len(trace) : trace[i].stage = stage
Failed(stage) == \E i \in 1..Len(trace) : trace[i].stage = stage /\ ~trace[i].ok
WroteKind(kind) == \E i \in 1..Len(writes) : writes[i].kind = kind
ReadKind(kind) == \E i \in 1..Len(reads) : reads[i].kind = kind
OutputsUntouched ==
    /\ outputsDir = AtStart.outputsDir
    /\ circuitFile = AtStart.circuitFile
    /\ checksumFile = AtStart.checksumFile
MainPhase == {"create_outputs", "read_input", "read_state", "compile_main",
              "checksum", "synthesize", "encode", "write_circuit",
              "read_circuit", "decode", "read_checksum", "write_checksum"}

\* C1: in a build of a package without a main source, nothing is ever
\* written (the outputs directory, the circuit file and the checksum file
\* stay as they were when the build started), no main-phase stage runs, and
\* a build that returns, returns None.
C1_NoMainNoWrites ==
    (Building /\ ~Exists(mainSrc)) =>
        /\ writes = <<>>
        /\ OutputsUntouched
        /\ \A i \in 1..Len(trace) : trace[i].stage \notin MainPhase
        /\ (Returned => result = None)

C1_Witness ==
    /\ Returned /\ ~Exists(mainSrc) /\ result = None
    /\ Exists(libSrc)
    /\ Exists(AtStart.checksumFile["dir"])

\* C2: a build of a package with a main source that starts without a
\* checksum file and returns, returns Some(program, true), and the checksum
\* file then exists and holds the checksum of that program.
C2_FirstBuildChanged ==
    (Returned /\ Exists(mainSrc) /\ ~Exists(AtStart.checksumFile["dir"])) =>
        /\ result # None
        /\ result[1].changed = TRUE
        /\ checksumFile["dir"] = File(Checksum(result[1].program))

C2_Witness ==
    /\ ReturnedSome /\ ~Exists(AtStart.checksumFile["dir"])
    /\ result[1].changed
    /\ Exists(AtStart.circuitFile["dir"])

\* C3: a build that returns Some(..), started after a build that returned
\* Some(..) with no edit of main source, input or state in between, returns
\* changed = false, writes no checksum file, and leaves the checksum file as
\* the first build left it.
C3_SecondBuildUnchanged ==
    (ReturnedSome /\ prevSome /\ ~dirty) =>
        /\ result[1].changed = FALSE
        /\ ~WroteKind("checksum")
        /\ ~Executed("write_checksum")
        /\ checksumFile = AtStart.checksumFile

C3_Witness ==
    /\ ReturnedSome /\ prevSome /\ ~dirty
    /\ ~result[1].changed
    /\ WroteKind("circuit")

\* C4: a build that returns Some(program, _) and started with a checksum
\* file holding a value other than the checksum of program, returns
\* changed = true and leaves the checksum file holding the new checksum.
C4_DifferingChecksumOverwritten ==
    (/\ ReturnedSome
     /\ Exists(AtStart.checksumFile["dir"])
     /\ Content(AtStart.checksumFile["dir"]) # Checksum(result[1].program)) =>
        /\ result[1].changed = TRUE
        /\ WroteKind("checksum")
        /\ checksumFile["dir"] = File(Checksum(result[1].program))
        /\ checksumFile["dir"] # AtStart.checksumFile["dir"]

C4_Witness ==
    /\ ReturnedSome
    /\ Exists(AtStart.checksumFile["dir"])
    /\ Content(AtStart.checksumFile["dir"]) # Checksum(result[1].program)
    /\ result[1].changed

\* C5: once the compilation of the library source has failed, the build has
\* ended with the frontend's error, the library compilation is the last
\* stage it executed, and nothing of the main phase has happened: no
\* outputs directory, no read of input, state or main source, no program,
\* no write.
C5_LibraryFailureStopsBuild ==
    Failed("compile_lib") =>
        /\ pc = "failed"
        /\ error = "FrontendCompileError"
        /\ trace[Len(trace)].stage = "compile_lib"
        /\ \A i \in 1..Len(trace) : trace[i].stage \notin MainPhase
        /\ ~ReadKind("input") /\ ~ReadKind("state") /\ ~ReadKind("main")
        /\ program = NoProgram
        /\ writes = <<>>
        /\ OutputsUntouched

C5_Witness ==
    /\ Failed("compile_lib") /\ pc = "failed"
    /\ Exists(mainSrc) /\ Content(mainSrc) # 0
    /\ ~outputsDir

\* C6: a stage that fails is the last stage of its build: the build is then
\* over without a result, a build is over with an error only when its last
\* stage failed, and a build returns only when every stage it executed
\* succeeded; and once a build is over it writes nothing more.
C6_StagesAbortOnFailure ==
    /\ \A i \in 1..Len(trace) :
           ~trace[i].ok => (i = Len(trace) /\ pc \in {"failed", "panicked"})
    /\ (pc \in {"failed", "panicked"}) =>
           (Len(trace) > 0 /\ ~trace[Len(trace)].ok /\ result = None)
    /\ Returned => \A i \in 1..Len(trace) : trace[i].ok

C6_OverMeansOver ==
    pc \in Final =>
        /\ pc' = "idle"
        /\ outputsDir' = outputsDir
        /\ circuitFile' = circuitFile
        /\ checksumFile' = checksumFile

C6_AbortOnFirstFailure ==
    []C6_StagesAbortOnFailure /\ [][C6_OverMeansOver]_vars

C6_Witness ==
    /\ pc = "failed" /\ Failed("read_circuit")
    /\ WroteKind("circuit")
    /\ checksumFile = AtStart.checksumFile

\* C7: a failure to encode the constraint system, or to decode the text
\* read back, ends the build with a CodecError returned to the caller.
C7_CodecFailureReturned ==
    (Failed("encode") \/ Failed("decode")) =>
        (pc = "failed" /\ error = "CodecError")

\* C8: with a root path that names a file, every read, existence check and
\* write of the build is resolved against the parent directory of that file;
\* so the circuit file is read where it was written, and the checksum file
\* is looked for and read where it is written.
C8_PathsUnderParent ==
    rootIsFile =>
        /\ \A i \in 1..Len(reads) : reads[i].base = "dir"
        /\ \A i \in 1..Len(writes) : writes[i].base = "dir"
        /\ \A i \in 1..Len(reads), j \in 1..Len(writes) :
               reads[i].kind = writes[j].kind => reads[i].base = writes[j].base

\* C9 as stated: the checksum of the program is computed only after the
\* circuit file has been written and decoded, so that a failed checksum
\* computation leaves a circuit file written by this build.
C9_ChecksumAfterDecode ==
    /\ Executed("checksum") => (Executed("write_circuit") /\ Executed("decode"))
    /\ Failed("checksum") => WroteKind("circuit")

StageNames(t) == [i \in 1..Len(t) |-> t[i].stage]
IsPrefix(a, b) == Len(a) <= Len(b) /\ a = SubSeq(b, 1, Len(a))
FromCompileMain ==
    StageNames(SelectSeq(trace, LAMBDA e :
        e.stage \in (MainPhase \ {"create_outputs", "read_input", "read_state"})))
CompileOrder == <<"compile_main", "checksum", "synthesize", "encode",
                  "write_circuit", "read_circuit", "decode">>
ChecksumOrders == {CompileOrder,
                   CompileOrder \o <<"read_checksum">>,
                   CompileOrder \o <<"write_checksum">>,
                   CompileOrder \o <<"read_checksum", "write_checksum">>}

\* C9, amended: the stages of a main build execute in the order compile
\* main, compute the program checksum, synthesize, encode, write the
\* circuit, read it back, decode, read the stored checksum if one exists,
\* write the checksum if it differs; a build that returns Some(..) has
\* executed them all; and a failed checksum computation leaves the circuit
\* file as it was when the build started.
C9_StageOrder ==
    /\ \E o \in ChecksumOrders : IsPrefix(FromCompileMain, o)
    /\ ReturnedSome => FromCompileMain \in ChecksumOrders
    /\ Executed("read_checksum") => Exists(AtStart.checksumFile["dir"])
    /\ Executed("write_checksum") => checksum_differs
    /\ Failed("checksum") =>
           /\ ~Executed("synthesize") /\ ~Executed("write_circuit")
           /\ ~WroteKind("circuit")
           /\ circuitFile = AtStart.circuitFile

C9_Witness ==
    /\ Failed("checksum") /\ pc = "failed"
    /\ Exists(AtStart.circuitFile["dir"])
    /\ ~WroteKind("circuit")

Count(stage) == Len(SelectSeq(trace, LAMBDA e : e.stage = stage))

Succeeded(stage) == \E i \in 1..Len(trace) : trace[i].stage = stage /\ trace[i].ok

\* C11: a missing input file or state file is read as the empty text: a
\* read that succeeded without a file left the empty text in its local,
\* the main source is compiled with what the reads produced, and a build
\* that returns Some(..) returns the program compiled from the main source
\* and the texts of the two files, empty where the file is missing.
C11_AbsentInputIsEmpty ==
    /\ (Succeeded("read_input") /\ ~Exists(inputFile["dir"])) =>
           input_string = EmptyText
    /\ (Succeeded("read_state") /\ ~Exists(stateFile["dir"])) =>
           state_string = EmptyText
    /\ Succeeded("compile_main") =>
           program = CompileWithInput(mainSrc, ReadOptional(inputFile["dir"]),
                                      ReadOptional(stateFile["dir"]))
    /\ ReturnedSome =>
           /\ result[1].program[1].input = ReadOptional(inputFile["dir"])
           /\ result[1].program[1].state = ReadOptional(stateFile["dir"])

C11_Witness ==
    /\ ReturnedSome
    /\ ~Exists(inputFile["dir"]) /\ ~Exists(stateFile["dir"])
    /\ result[1].program[1].input = EmptyText
    /\ result[1].program[1].state = EmptyText
    /\ prevSome /\ dirty

\* C12: a build creates the outputs directory at most once, and exactly
\* once when it returns from a package with a main source; the creation
\* succeeded before the input file, the state file or the main source is
\* read; a directory that existed when the build started still exists, and
\* the circuit and checksum files in it are as they were until this build
\* writes them.
C12_OutputsCreatedOnce ==
    /\ Count("create_outputs") <= 1
    /\ (Returned /\ Exists(mainSrc)) => Count("create_outputs") = 1
    /\ \A j \in 1..Len(trace) :
           trace[j].stage \in {"read_input", "read_state", "compile_main"} =>
               \E i \in 1..(j - 1) :
                   trace[i].stage = "create_outputs" /\ trace[i].ok
    /\ Succeeded("create_outputs") => outputsDir
    /\ Building =>
           /\ AtStart.outputsDir => outputsDir
           /\ ~WroteKind("circuit") => circuitFile = AtStart.circuitFile
           /\ ~WroteKind("checksum") => checksumFile = AtStart.checksumFile

C12_Witness ==
    /\ ReturnedSome
    /\ AtStart.outputsDir
    /\ Exists(AtStart.checksumFile["dir"])
    /\ ~WroteKind("checksum")
    /\ checksumFile = AtStart.checksumFile
    /\ writes = <<[kind |-> "circuit", base |-> "dir"]>>

\* C13: a build that returns Some(program, changed) has written the circuit
\* file once, and the file holds the encoding of the constraint system of
\* program; it has written the checksum file exactly when changed is true.
C13_CircuitAlwaysWritten ==
    /\ ReturnedSome =>
           /\ WroteKind("circuit")
           /\ Count("write_circuit") = 1
           /\ circuitFile["dir"] = File(Encode(Synthesize(result[1].program)))
           /\ WroteKind("checksum") <=> result[1].changed
    /\ WroteKind("checksum") => checksum_differs

C13_Witness ==
    /\ ReturnedSome
    /\ ~result[1].changed
    /\ WroteKind("circuit") /\ ~WroteKind("checksum")
    /\ Exists(AtStart.circuitFile["dir"])
    /\ circuitFile["dir"] # AtStart.circuitFile["dir"]

\* C14: from main compilation on, and through synthesis, the program of the
\* build is the one the frontend produced from the main source and the two
\* texts read; a build that returns Some(program, changed) returns that
\* program, its checksum is the one the build computed and compared, and
\* when changed is true it is the content of the checksum file.
C14_ReturnedProgramIsCompiled ==
    /\ Succeeded("compile_main") =>
           program = CompileWithInput(mainSrc, input_string, state_string)
    /\ Succeeded("synthesize") => cs = Synthesize(program)
    /\ ReturnedSome =>
           /\ result[1].program = program
           /\ Checksum(result[1].program) = program_checksum
           /\ result[1].changed =>
                  checksumFile["dir"] = File(Checksum(result[1].program))

C14_Witness ==
    /\ ReturnedSome
    /\ result[1].changed
    /\ result[1].program[1].input # EmptyText
    /\ result[1].program[1].state # EmptyText
    /\ Len(cs.at) = 2

\* C15: in a build of a package whose manifest is missing or malformed, the
\* manifest is the last thing looked at: the build ends with a
\* ManifestError, no source is checked for or compiled, nothing is read and
\* nothing is written.
C15_ManifestErrorFirst ==
    (Building /\ ~manifestOk /\ trace[1].ok) =>
        /\ pc \in {"manifest", "failed"}
        /\ pc = "failed" => (error = "ManifestError" /\ Failed("manifest"))
        /\ \A i \in 1..Len(trace) : trace[i].stage \in {"current_dir", "manifest"}
        /\ reads = <<>>
        /\ writes = <<>>
        /\ OutputsUntouched
        /\ program = NoProgram

C15_Witness ==
    /\ pc = "failed" /\ error = "ManifestError"
    /\ Failed("manifest")
    /\ Exists(libSrc) /\ Content(libSrc) = 0
    /\ Exists(mainSrc)

AllStages == MainPhase \cup {"current_dir", "manifest", "compile_lib"}
Running == pc \notin (Final \cup {"idle"})

\* C16: no stage is executed twice in a build, a build that is over is over
\* in one of three ways (it returned None, it returned Some(..), or it
\* failed: by an error or, for the codec, by a panic), and a build that has
\* started is eventually over.
C16_StagesOnce ==
    /\ \A st \in AllStages : Count(st) <= 1
    /\ \A i \in 1..Len(trace) : trace[i].stage \in AllStages
    /\ pc = "done" => (result = None \/ (Len(result) = 1 /\ result[1].program = program))
    /\ pc = "failed" => error # "none"

C16_Terminates ==
    /\ []C16_StagesOnce
    /\ Running ~> (pc \in Final)

C16_Witness ==
    /\ ReturnedSome
    /\ Len(trace) = 14
    /\ Count("write_checksum") = 1 /\ Count("read_checksum") = 1
    /\ Count("compile_lib") = 0

\* C17: when a build returns Some(program, changed), whatever changed is
\* and whatever the files were before, the checksum file exists and holds
\* the checksum of program.
C17_ChecksumFileCurrent ==
    ReturnedSome =>
        /\ Exists(checksumFile["dir"])
        /\ Content(checksumFile["dir"]) = Checksum(result[1].program)

C17_Witness ==
    /\ ReturnedSome
    /\ ~result[1].changed
    /\ ~prevSome
    /\ Content(checksumFile["dir"]) = Checksum(result[1].program)

\* C18: as long as a build has not written the checksum file, the file is
\* as it was when the build started; so it is after a build that failed
\* before the checksum write; and the checksum write is attempted only
\* after the circuit file of this build was written, read back and decoded.
C18_ChecksumWrittenLast ==
    /\ (Building /\ ~WroteKind("checksum")) => checksumFile = AtStart.checksumFile
    /\ (pc \in {"failed", "panicked"} /\ ~Executed("write_checksum")) =>
           checksumFile = AtStart.checksumFile
    /\ \A j \in 1..Len(trace) :
           trace[j].stage = "write_checksum" =>
               /\ \E i \in 1..(j - 1) : trace[i] = [stage |-> "write_circuit", ok |-> TRUE]
               /\ \E i \in 1..(j - 1) : trace[i] = [stage |-> "read_circuit", ok |-> TRUE]
               /\ \E i \in 1..(j - 1) : trace[i] = [stage |-> "decode", ok |-> TRUE]
               /\ WroteKind("circuit")

C18_Witness ==
    /\ pc = "failed" /\ Failed("read_checksum")
    /\ WroteKind("circuit")
    /\ Exists(checksumFile["dir"])
    /\ Content(checksumFile["dir"]) # program_checksum
    /\ checksumFile = AtStart.checksumFile

\* C19: a build that returns Some(program, changed) returns changed = true
\* exactly when no earlier build of the package returned Some(..) or the
\* checksum of program differs from the checksum of the program of the
\* latest earlier build that did, whatever builds failed in between.
C19_ChangedSinceLastSuccess ==
    ReturnedSome =>
        (result[1].changed <=>
            (lastSum = NoSum \/ lastSum[1] # Checksum(result[1].program)))

C19_Witness ==
    /\ ReturnedSome
    /\ result[1].changed
    /\ lastSum # NoSum
    /\ ~prevSome /\ ~dirty

====
